---- MODULE Spec2Model ----
(***************************************************************************)
(* The capture loop of src/main.py: the wakeword detection poller and the  *)
(* recording state controller, one loop iteration per step.                *)
(*                                                                         *)
(* An audio chunk is identified by its position in the microphone stream   *)
(* (the n-th chunk read is chunk n).  Its energy (rms) and the scores the  *)
(* wakeword scorer returns for it are inputs of the iteration.  Seconds    *)
(* are kept in thousandths (1.0 s = 1000) and scores in hundredths         *)
(* (0.5 = 50), so that all arithmetic is integer arithmetic.               *)
(***************************************************************************)
EXTENDS Integers, Sequences, FiniteSets, TLC

VARIABLES
    args,                      \* the parsed configuration (args, main.py:74)
    n,                         \* number of chunks read from mic_stream so far
    is_recording,              \* main.py:124
    recorded_frames,           \* main.py:125, the chunks (by position) recorded
    consecutive_silent_chunks, \* main.py:126
    speech_has_started,        \* main.py:127
    rms,                       \* main.py:140, the energy last computed
    prediction,                \* main.py:203, the scores last returned by predict
    prediction_buffer,         \* owwModel.prediction_buffer: per-model history
    exported,                  \* frames handed to the exporter by the latest iteration
    log,                       \* what the latest iteration did, in program order
    halted,                    \* the process has ended with an uncaught exception
    phase,                     \* the part of the script the process is in
    raw,                       \* settings.json and the command line, until used
    missing,                   \* the arguments whose value in args is None
    audio_data,                \* main.py:135, the samples of a chunk whose energy is computed
    user_model_paths,          \* main.py:99, the model files the scorer is given
    settings_file,             \* the content of settings.json
    default_settings,          \* config.py:9, the module-level DEFAULT_SETTINGS
    final_settings,            \* the object load_settings returned last
    save_outcome,              \* what the latest load_settings wrote
    \* history variables (not program state)
    loaded_from_file,          \* the content the latest load_settings found
    returned,                  \* the mappings load_settings returned, in order
    fault,                     \* the call that raised, "none" so far
    score_exceeded,            \* some score returned so far was above 0.5
    had_session,               \* some session has ended so far
    detected_at,               \* chunk on which the current/just-ended session was detected
    silent_run,                \* trailing run of session chunks with rms < silence_threshold
    speech_unbroken            \* in this session no chunk below the threshold precedes
                               \* one at or above it

vars == <<args, n, is_recording, recorded_frames, consecutive_silent_chunks,
          speech_has_started, rms, prediction, prediction_buffer, exported, log,
          halted, phase, raw, missing, audio_data, user_model_paths,
          settings_file, default_settings, final_settings, save_outcome,
          loaded_from_file, returned, fault,
          score_exceeded, had_session, detected_at, silent_run, speech_unbroken>>

\* the variables of the start of the script
startup_vars == <<phase, raw, missing>>

\* the variables the capture loop and the start of the script leave alone
settings_vars == <<settings_file, default_settings, final_settings, save_outcome,
                   loaded_from_file, returned>>

aside_vars == <<audio_data, user_model_paths, settings_vars>>

\* the variables of the while loop
loop_vars == <<n, is_recording, recorded_frames, consecutive_silent_chunks,
               speech_has_started, rms, prediction, prediction_buffer, exported, log>>

\* the history variables of a session
session_history == <<score_exceeded, had_session, detected_at, silent_run, speech_unbroken>>

(***************************************************************************)
(* Bounds of the model.                                                    *)
(***************************************************************************)
\* chunks read before the model stops
MaxChunks == 52
\* trailing scores kept of each rolling score history
HistoryLen == 2

(***************************************************************************)
(* Program constants and configuration.                                    *)
(***************************************************************************)
RATE == 16000

\* scores[-1] > 0.5, in hundredths
DetectionThreshold == 50

\* the configured wakeword models, in the key order of prediction_buffer
Models == <<"m1", "m2">>

ModelSet == {Models[i] : i \in 1..Len(Models)}

\* DEFAULT_SETTINGS: 12.5 and 50 chunks
ArgsDefault ==
    [chunk_size |-> 1280, silence_threshold |-> 500,
     silence_duration_ms |-> 1000, no_speech_timeout_ms |-> 4000]

\* durations that are no whole number of chunks: 3.9 and 5.86 chunks
ArgsCoarse ==
    [chunk_size |-> 4096, silence_threshold |-> 300,
     silence_duration_ms |-> 1000, no_speech_timeout_ms |-> 1500]

\* durations shorter than one chunk: 0.625 chunks
ArgsShort ==
    [chunk_size |-> 1280, silence_threshold |-> 500,
     silence_duration_ms |-> 50, no_speech_timeout_ms |-> 50]

Configs == {ArgsDefault, ArgsCoarse, ArgsShort}

\* a no-speech timeout shorter than the silence that ends speech: 2.34 and
\* 5.86 chunks
ArgsQuick ==
    [chunk_size |-> 4096, silence_threshold |-> 300,
     silence_duration_ms |-> 1500, no_speech_timeout_ms |-> 600]

CHUNK == args.chunk_size

\* energies a chunk can have: well below, just below, at and above the threshold
RmsLevels == {100, args.silence_threshold - 1, args.silence_threshold, 800}

\* scores the scorer can return: 0.5 exactly and 0.51
ScoreLevels == {DetectionThreshold, DetectionThreshold + 1}

Abs(i) == IF i < 0 THEN -i ELSE i

\* Python's int(num / den) for den # 0: truncation towards zero
IntTrunc(num, den) ==
    LET q == Abs(num) \div Abs(den)
    IN  IF (num >= 0) = (den > 0) THEN q ELSE -q

SILENCE_CHUNKS_FOR_SPEECH_END ==
    IntTrunc(args.silence_duration_ms * RATE, 1000 * CHUNK)

NO_SPEECH_TIMEOUT_CHUNKS ==
    IntTrunc(args.no_speech_timeout_ms * RATE, 1000 * CHUNK)

(***************************************************************************)
(* The settings file (settings/config.py).  A content of the file, and a   *)
(* settings mapping, is a record of its kind and, when it is a JSON        *)
(* object, of its categories; a category is a record of its kind and, when *)
(* it is an object, of its keys.  The value of a key is the key's default, *)
(* another value ("custom", "mutated") or null.                            *)
(***************************************************************************)
\* the keys of DEFAULT_SETTINGS["wakeword_settings"]
Keys == {"model_path1", "model_path2", "model_path3", "chunk_size",
         "inference_framework", "silence_threshold", "silence_duration_seconds",
         "no_speech_timeout_seconds"}

NoKeys == [k \in {} |-> "default"]

Dict(keys) == [kind |-> "object", keys |-> keys]

\* a category that is no object
Scalar == [kind |-> "number", keys |-> NoKeys]

NoCategories == [c \in {} |-> Scalar]

Object(cats) == [kind |-> "object", cats |-> cats]

\* a content that is no JSON object, or no JSON at all
Content(kind) == [kind |-> kind, cats |-> NoCategories]

DEFAULT_SETTINGS ==
    Object([c \in {"wakeword_settings"} |-> Dict([k \in Keys |-> "default"])])

\* copy.deepcopy(x): an object that shares nothing with x
DeepCopy(x) == [value |-> x, shares |-> {}]

\* no object returned so far
NoResult == [value |-> Content("nothing"), shares |-> {}]

\* the settings are loaded and the file is as load_settings left it (the
\* history of the load is not kept)
SettingsLoaded ==
    /\ settings_file = DEFAULT_SETTINGS
    /\ default_settings = DEFAULT_SETTINGS
    /\ final_settings = DeepCopy(DEFAULT_SETTINGS)
    /\ save_outcome = "none"
    /\ loaded_from_file = Content("nothing")
    /\ returned = <<>>

(***************************************************************************)
(* Configuration sources.  A value of settings.json or of the command line *)
(* is absent, null (None), text that is no number, or a number.            *)
(***************************************************************************)
Params == {"chunk_size", "silence_threshold", "silence_duration_ms",
           "no_speech_timeout_ms"}

Absent == [kind |-> "absent", val |-> 0]
None == [kind |-> "none", val |-> 0]
Text == [kind |-> "text", val |-> 0]
Number(v) == [kind |-> "int", val |-> v]
Consumed == [kind |-> "consumed", val |-> 0]

\* the sources once parse_args has used them
RawConsumed == [settings |-> [k \in Params |-> Consumed],
                cli |-> [k \in Params |-> Consumed]]

\* args before parse_args
ArgsUnparsed == [k \in Params |-> 0]

(***************************************************************************)
(* The wakeword scorer (openwakeword Model), an opaque collaborator: the   *)
(* score it returns for a chunk is an input; predict appends it to each    *)
(* model's rolling history and reset empties the histories.                *)
(***************************************************************************)
KeepLast(s) ==
    IF Len(s) > HistoryLen THEN SubSeq(s, Len(s) - HistoryLen + 1, Len(s)) ELSE s

\* owwModel.predict(audio_data): one more score per model
Predict(pb, scores) ==
    [m \in ModelSet |-> KeepLast(Append(pb[m], scores[m]))]

\* owwModel.reset()
Reset == [m \in ModelSet |-> <<>>]

\* variant: the threshold itself counts as a detection
ScoreExceedsInclusive(scores) ==
    scores # <<>> /\ scores[Len(scores)] >= DetectionThreshold

\* if scores and scores[-1] > 0.5
ScoreExceeds(scores) ==
    scores # <<>> /\ scores[Len(scores)] > DetectionThreshold

\* variant: the for loop without its break
RECURSIVE DetectLoopNoBreak(_, _)
DetectLoopNoBreak(pb, i) ==
    IF i > Len(Models) THEN <<>>
    ELSE (IF ScoreExceeds(pb[Models[i]]) THEN <<Models[i]>> ELSE <<>>)
         \o DetectLoopNoBreak(pb, i + 1)

\* for mdl in owwModel.prediction_buffer.keys(): ... break
\* the models announced as detected, from the i-th key on
RECURSIVE DetectLoop(_, _)
DetectLoop(pb, i) ==
    IF i > Len(Models) THEN <<>>
    ELSE IF ScoreExceeds(pb[Models[i]]) THEN <<Models[i]>>
    ELSE DetectLoop(pb, i + 1)

(***************************************************************************)
(* The comparisons of the recording controller.                            *)
(***************************************************************************)
\* variant: speech has to be strictly above the threshold
SpeechStartsStrict(r) == r > args.silence_threshold

\* if rms >= args.silence_threshold  (awaiting speech)
SpeechStarts(r) == r >= args.silence_threshold

\* if rms < args.silence_threshold  (in speech)
IsSilent(r) == r < args.silence_threshold

\* variant: the limit has to be passed, not reached
NoSpeechTimedOutLate(c) == c > NO_SPEECH_TIMEOUT_CHUNKS

\* if consecutive_silent_chunks >= NO_SPEECH_TIMEOUT_CHUNKS
NoSpeechTimedOut(c) == c >= NO_SPEECH_TIMEOUT_CHUNKS

\* variant: the limit has to be passed, not reached
SpeechEndedLate(c) == c > SILENCE_CHUNKS_FOR_SPEECH_END

\* if consecutive_silent_chunks >= SILENCE_CHUNKS_FOR_SPEECH_END
SpeechEnded(c) == c >= SILENCE_CHUNKS_FOR_SPEECH_END

(***************************************************************************)
(* Initial state: the state on entry to the while loop.                    *)
(***************************************************************************)
LoopEntry ==
    /\ n = 0
    /\ is_recording = FALSE
    /\ recorded_frames = <<>>
    /\ consecutive_silent_chunks = 0
    /\ speech_has_started = FALSE
    /\ rms = 0
    /\ prediction = [m \in ModelSet |-> 0]
    /\ prediction_buffer = [m \in ModelSet |-> <<>>]
    /\ exported = <<>>
    /\ log = <<>>
    /\ halted = FALSE
    /\ fault = "none"
    /\ score_exceeded = FALSE
    /\ had_session = FALSE
    /\ detected_at = 0
    /\ silent_run = 0
    /\ speech_unbroken = TRUE

\* the arguments are parsed and all present
Init ==
    /\ args \in Configs
    /\ phase = "loop"
    /\ raw = RawConsumed
    /\ missing = {}
    /\ audio_data = <<>>
    /\ SettingsLoaded
    /\ user_model_paths = <<>>
    /\ LoopEntry

(***************************************************************************)
(* Session ends.  frames is recorded_frames with the current chunk         *)
(* appended; both paths export it when it is not empty, clear the session  *)
(* fields and reset the scorer.                                            *)
(***************************************************************************)
\* variant: the abort leaves the scorer's histories alone
AbortSessionNoReset(frames) ==
    /\ exported' = frames
    /\ is_recording' = FALSE
    /\ recorded_frames' = <<>>
    /\ consecutive_silent_chunks' = 0
    /\ speech_has_started' = FALSE
    /\ prediction_buffer' = prediction_buffer
    /\ log' = <<"append", "no_speech_timeout">>
              \o (IF frames # <<>> THEN <<"export">> ELSE <<>>)
              \o <<"clear">>

\* variant: the abort discards the buffer instead of exporting it
AbortSessionDiscards(frames) ==
    /\ exported' = <<>>
    /\ is_recording' = FALSE
    /\ recorded_frames' = <<>>
    /\ consecutive_silent_chunks' = 0
    /\ speech_has_started' = FALSE
    /\ prediction_buffer' = Reset
    /\ log' = <<"append", "no_speech_timeout", "clear", "reset">>

\* the no-speech abort
AbortSession(frames) ==
    /\ exported' = frames
    /\ is_recording' = FALSE
    /\ recorded_frames' = <<>>
    /\ consecutive_silent_chunks' = 0
    /\ speech_has_started' = FALSE
    /\ prediction_buffer' = Reset
    /\ log' = <<"append", "no_speech_timeout">>
              \o (IF frames # <<>> THEN <<"export">> ELSE <<>>)
              \o <<"clear", "reset">>

\* variant: the chunk that ends the session is left out of the export
FinalizeSessionDropsLast(frames) ==
    /\ exported' = SubSeq(frames, 1, Len(frames) - 1)
    /\ is_recording' = FALSE
    /\ recorded_frames' = <<>>
    /\ consecutive_silent_chunks' = 0
    /\ speech_has_started' = FALSE
    /\ prediction_buffer' = Reset
    /\ log' = <<"append", "silence_detected">>
              \o (IF Len(frames) > 1 THEN <<"export">> ELSE <<>>)
              \o <<"clear", "reset">>

\* variant: the finalization leaves the silence counter as counted
FinalizeSessionKeepsCounter(frames) ==
    /\ exported' = frames
    /\ is_recording' = FALSE
    /\ recorded_frames' = <<>>
    /\ consecutive_silent_chunks' = consecutive_silent_chunks + 1
    /\ speech_has_started' = FALSE
    /\ prediction_buffer' = Reset
    /\ log' = <<"append", "silence_detected">>
              \o (IF frames # <<>> THEN <<"export">> ELSE <<>>)
              \o <<"clear", "reset">>

\* the end-of-speech finalization
FinalizeSession(frames) ==
    /\ exported' = frames
    /\ is_recording' = FALSE
    /\ recorded_frames' = <<>>
    /\ consecutive_silent_chunks' = 0
    /\ speech_has_started' = FALSE
    /\ prediction_buffer' = Reset
    /\ log' = <<"append", "silence_detected">>
              \o (IF frames # <<>> THEN <<"export">> ELSE <<>>)
              \o <<"clear", "reset">>

\* an iteration that stays in the session
KeepRecording(frames, started, count, events) ==
    /\ exported' = <<>>
    /\ is_recording' = TRUE
    /\ recorded_frames' = frames
    /\ consecutive_silent_chunks' = count
    /\ speech_has_started' = started
    /\ prediction_buffer' = prediction_buffer
    /\ log' = <<"append">> \o events

\* variant: the timeout is tested before the chunk is counted
AwaitingSpeechChecksFirst(r, frames) ==
    IF SpeechStarts(r)
    THEN KeepRecording(frames, TRUE, 0, <<"speech_started">>)
    ELSE IF NoSpeechTimedOut(consecutive_silent_chunks)
         THEN AbortSession(frames)
         ELSE KeepRecording(frames, FALSE, consecutive_silent_chunks + 1, <<>>)

\* if not speech_has_started: ...
AwaitingSpeech(r, frames) ==
    IF SpeechStarts(r)
    THEN KeepRecording(frames, TRUE, 0, <<"speech_started">>)
    ELSE IF NoSpeechTimedOut(consecutive_silent_chunks + 1)
         THEN AbortSession(frames)
         ELSE KeepRecording(frames, FALSE, consecutive_silent_chunks + 1, <<>>)

\* variant: continued speech leaves the silence counter as it is
InSpeechNoCounterReset(r, frames) ==
    IF IsSilent(r)
    THEN IF SpeechEnded(consecutive_silent_chunks + 1)
         THEN FinalizeSession(frames)
         ELSE KeepRecording(frames, TRUE, consecutive_silent_chunks + 1, <<>>)
    ELSE KeepRecording(frames, TRUE, consecutive_silent_chunks, <<>>)

\* variant: the no-speech timeout still applies once speech has started
InSpeechAppliesTimeout(r, frames) ==
    IF IsSilent(r)
    THEN IF SpeechEnded(consecutive_silent_chunks + 1)
         THEN FinalizeSession(frames)
         ELSE IF NoSpeechTimedOut(consecutive_silent_chunks + 1)
              THEN AbortSession(frames)
              ELSE KeepRecording(frames, TRUE, consecutive_silent_chunks + 1, <<>>)
    ELSE KeepRecording(frames, TRUE, 0, <<>>)

\* else: ...
InSpeech(r, frames) ==
    IF IsSilent(r)
    THEN IF SpeechEnded(consecutive_silent_chunks + 1)
         THEN FinalizeSession(frames)
         ELSE KeepRecording(frames, TRUE, consecutive_silent_chunks + 1, <<>>)
    ELSE KeepRecording(frames, TRUE, 0, <<>>)

(***************************************************************************)
(* One iteration of the loop while recording: the chunk read has energy r. *)
(***************************************************************************)
RecordingBranch(r) ==
    /\ phase = "loop"
    /\ ~halted
    /\ "silence_threshold" \notin missing
    /\ UNCHANGED startup_vars
    /\ UNCHANGED aside_vars
    /\ is_recording
    /\ n < MaxChunks
    /\ n' = n + 1
    /\ rms' = r
    /\ IF ~speech_has_started
       THEN AwaitingSpeech(r, Append(recorded_frames, n + 1))
       ELSE InSpeech(r, Append(recorded_frames, n + 1))
    /\ UNCHANGED <<args, prediction, halted, fault>>
    \* history
    /\ UNCHANGED <<score_exceeded, detected_at>>
    /\ had_session' = (had_session \/ ~is_recording')
    /\ silent_run' = IF r < args.silence_threshold THEN silent_run + 1 ELSE 0
    /\ speech_unbroken' =
           (speech_unbroken /\ (r < args.silence_threshold \/ silent_run = 0))

(***************************************************************************)
(* One iteration of the loop while not recording: the scorer returns       *)
(* scores for the chunk read.                                              *)
(***************************************************************************)
\* variant: the detection resets the scorer
StartRecordingWithReset(pb, hits) ==
    /\ is_recording' = TRUE
    /\ recorded_frames' = <<>>
    /\ speech_has_started' = FALSE
    /\ consecutive_silent_chunks' = 0
    /\ prediction_buffer' = Reset
    /\ log' = <<"predict">> \o hits \o <<"reset">>

\* variant: the detecting chunk opens the recording buffer
StartRecordingKeepsChunk(pb, hits) ==
    /\ is_recording' = TRUE
    /\ recorded_frames' = <<n + 1>>
    /\ speech_has_started' = FALSE
    /\ consecutive_silent_chunks' = 0
    /\ prediction_buffer' = pb
    /\ log' = <<"predict">> \o hits \o <<"append">>

\* variant: the detection marks speech as started
StartRecordingInSpeech(pb, hits) ==
    /\ is_recording' = TRUE
    /\ recorded_frames' = <<>>
    /\ speech_has_started' = TRUE
    /\ consecutive_silent_chunks' = 0
    /\ prediction_buffer' = pb
    /\ log' = <<"predict">> \o hits

\* the body of the if inside the for loop; hits are the models announced
StartRecording(pb, hits) ==
    /\ is_recording' = TRUE
    /\ recorded_frames' = <<>>
    /\ speech_has_started' = FALSE
    /\ consecutive_silent_chunks' = 0
    /\ prediction_buffer' = pb
    /\ log' = <<"predict">> \o hits

\* no trailing score above the threshold
StayIdle(pb) ==
    /\ UNCHANGED <<is_recording, recorded_frames, speech_has_started,
                   consecutive_silent_chunks>>
    /\ prediction_buffer' = pb
    /\ log' = <<"predict">>

DetectionBranch(scores) ==
    /\ phase = "loop"
    /\ ~halted
    /\ UNCHANGED startup_vars
    /\ UNCHANGED aside_vars
    /\ ~is_recording
    /\ n < MaxChunks
    /\ n' = n + 1
    /\ prediction' = scores
    /\ LET pb == Predict(prediction_buffer, scores)
           hits == DetectLoop(pb, 1)
       IN  /\ IF hits # <<>> THEN StartRecording(pb, hits) ELSE StayIdle(pb)
           \* history
           /\ detected_at' = IF hits # <<>> THEN n + 1 ELSE 0
    /\ exported' = <<>>
    /\ UNCHANGED <<args, rms, halted, fault>>
    \* history
    /\ score_exceeded' =
           (score_exceeded \/ \E m \in ModelSet : scores[m] > DetectionThreshold)
    /\ silent_run' = 0
    /\ speech_unbroken' = TRUE
    /\ UNCHANGED had_session

Next ==
    \/ \E r \in RmsLevels : RecordingBranch(r)
    \/ \E scores \in [ModelSet -> ScoreLevels] : DetectionBranch(scores)

Spec == Init /\ [][Next]_vars

(***************************************************************************)
(* The loop with a microphone that keeps delivering chunks and             *)
(* collaborators that raise nothing: `while True` takes its next iteration *)
(* whenever it can.                                                        *)
(***************************************************************************)
LiveConfigs == {ArgsQuick, ArgsShort}

LiveInit ==
    /\ args \in LiveConfigs
    /\ phase = "loop"
    /\ raw = RawConsumed
    /\ missing = {}
    /\ audio_data = <<>>
    /\ SettingsLoaded
    /\ user_model_paths = <<>>
    /\ LoopEntry

SpecLive == LiveInit /\ [][Next]_vars /\ WF_vars(Next)

(***************************************************************************)
(* Collaborator faults.  The loop has no try/except: an exception raised   *)
(* by mic_stream.read, owwModel.predict, the exporter or owwModel.reset    *)
(* leaves the loop where it is raised and ends the process.                *)
(***************************************************************************)
\* variant: the exception is caught and the loop goes on
RaiseCaught(call) ==
    /\ halted' = FALSE
    /\ fault' = call

\* an exception leaving the while loop
Raise(call) ==
    /\ halted' = TRUE
    /\ fault' = call

\* mic_stream.read(CHUNK) raises: nothing was read
ReadFault ==
    /\ phase = "loop"
    /\ ~halted
    /\ UNCHANGED startup_vars
    /\ UNCHANGED aside_vars
    /\ n < MaxChunks
    /\ Raise("read")
    /\ UNCHANGED <<args, n, is_recording, recorded_frames, consecutive_silent_chunks,
                   speech_has_started, rms, prediction, prediction_buffer,
                   exported, log>>
    /\ UNCHANGED session_history

\* owwModel.predict(audio_data) raises: the chunk was read and nothing else
PredictFault ==
    /\ phase = "loop"
    /\ ~halted
    /\ UNCHANGED startup_vars
    /\ UNCHANGED aside_vars
    /\ ~is_recording
    /\ n < MaxChunks
    /\ n' = n + 1
    /\ Raise("predict")
    /\ log' = <<>>
    /\ UNCHANGED <<args, is_recording, recorded_frames, consecutive_silent_chunks,
                   speech_has_started, rms, prediction, prediction_buffer, exported>>
    /\ UNCHANGED session_history

\* the chunk with energy r ends the session
EndsSession(r) ==
    IF ~speech_has_started
    THEN ~SpeechStarts(r) /\ NoSpeechTimedOut(consecutive_silent_chunks + 1)
    ELSE IsSilent(r) /\ SpeechEnded(consecutive_silent_chunks + 1)

\* the exporter raises (AudioSegment.from_raw, os.makedirs or export): the
\* chunk was appended and counted, the session fields are not cleared
ExportFault(r) ==
    /\ phase = "loop"
    /\ ~halted
    /\ "silence_threshold" \notin missing
    /\ UNCHANGED startup_vars
    /\ UNCHANGED aside_vars
    /\ is_recording
    /\ n < MaxChunks
    /\ EndsSession(r)
    /\ n' = n + 1
    /\ rms' = r
    /\ recorded_frames' = Append(recorded_frames, n + 1)
    /\ consecutive_silent_chunks' = consecutive_silent_chunks + 1
    /\ log' = <<"append", IF speech_has_started THEN "silence_detected"
                                               ELSE "no_speech_timeout">>
    /\ Raise("export")
    /\ UNCHANGED <<args, is_recording, speech_has_started, prediction,
                   prediction_buffer, exported>>
    /\ UNCHANGED <<score_exceeded, had_session, detected_at>>
    /\ silent_run' = silent_run + 1
    /\ speech_unbroken' = speech_unbroken

\* owwModel.reset() raises: the session was exported and cleared
ResetFault(r) ==
    /\ phase = "loop"
    /\ ~halted
    /\ "silence_threshold" \notin missing
    /\ UNCHANGED startup_vars
    /\ UNCHANGED aside_vars
    /\ is_recording
    /\ n < MaxChunks
    /\ EndsSession(r)
    /\ n' = n + 1
    /\ rms' = r
    /\ exported' = Append(recorded_frames, n + 1)
    /\ is_recording' = FALSE
    /\ recorded_frames' = <<>>
    /\ consecutive_silent_chunks' = 0
    /\ speech_has_started' = FALSE
    /\ log' = <<"append", IF speech_has_started THEN "silence_detected"
                                               ELSE "no_speech_timeout",
                "export", "clear">>
    /\ Raise("reset")
    /\ UNCHANGED <<args, prediction, prediction_buffer>>
    /\ UNCHANGED <<score_exceeded, detected_at>>
    /\ had_session' = TRUE
    /\ silent_run' = silent_run + 1
    /\ speech_unbroken' = speech_unbroken

\* configurations of the runs with faults
FaultConfigs == {ArgsCoarse, ArgsShort}

FaultInit == Init /\ args \in FaultConfigs

FaultNext ==
    \/ Next
    \/ ReadFault
    \/ PredictFault
    \/ \E r \in RmsLevels : ExportFault(r)
    \/ \E r \in RmsLevels : ResetFault(r)

SpecFaults == FaultInit /\ [][FaultNext]_vars

(***************************************************************************)
(* Vocabulary of the properties.                                           *)
(***************************************************************************)
(* The energy of a chunk.  A sample array is a sequence of integers with   *)
(* its dtype.  int16 arithmetic wraps to 16 bits; float64 arithmetic is    *)
(* exact on the integers below 2^53, which the sums of squares of a chunk  *)
(* stay far below.  The square root is kept in whole units (rounded down): *)
(* the thresholds it is compared with are whole numbers.                   *)
(***************************************************************************)
\* the range of np.int16
Int16Min == -32768
Int16Max == 32767

\* samples of the longest chunk of the energy computation
MaxSamples == 3

\* two's complement wrap of int16 arithmetic
Wrap16(x) == ((x - Int16Min) % 65536) + Int16Min

\* variant: the samples keep their dtype
AstypeNone(a) == a

\* audio_data.astype(np.float64)
AstypeFloat64(a) == [dtype |-> "float64", data |-> a.data]

\* a ** 2, in the array's dtype
Squared(a) ==
    [dtype |-> a.dtype,
     data |-> [i \in 1..Len(a.data) |->
                  IF a.dtype = "int16" THEN Wrap16(a.data[i] * a.data[i])
                  ELSE a.data[i] * a.data[i]]]

RECURSIVE SumSeq(_, _)
SumSeq(d, i) == IF i > Len(d) THEN 0 ELSE d[i] + SumSeq(d, i + 1)

\* np.mean(a), in whole units: the sum is accumulated in float64 whatever
\* the dtype.  The sum of the quotients plus the quotient of the sum of the
\* remainders is the quotient of the sum, with no intermediate value above
\* the largest square
Mean(a) ==
    LET len == Len(a.data)
        quot == [i \in 1..len |-> a.data[i] \div len]
        rem == [i \in 1..len |-> a.data[i] % len]
    IN  SumSeq(quot, 1) + (SumSeq(rem, 1) \div len)

\* the largest r in lo..hi with r * r <= x
RECURSIVE RootIn(_, _, _)
RootIn(x, lo, hi) ==
    IF lo >= hi THEN lo
    ELSE LET mid == (lo + hi + 1) \div 2
         IN  IF mid * mid <= x THEN RootIn(x, mid, hi) ELSE RootIn(x, lo, mid - 1)

\* np.sqrt(x), in whole units
Sqrt(x) == RootIn(x, 0, Int16Max + 1)

\* rms = np.sqrt(np.mean(audio_data.astype(np.float64)**2))
Rms(a) == Sqrt(Mean(Squared(AstypeFloat64(a))))

\* np.frombuffer(.., dtype=np.int16)
FromBuffer(samples) == [dtype |-> "int16", data |-> samples]

\* chunks of one sample and of MaxSamples samples, all of one amplitude
ConstantChunks ==
    {[i \in 1..len |-> amp] : len \in {1, MaxSamples}, amp \in Int16Min..Int16Max}

\* chunks of several amplitudes
MixedChunks == {<<7, 1>>, <<3, 4>>, <<Int16Min, Int16Max>>, <<300, -300, 0>>}

ComputeRms ==
    /\ phase = "chunk"
    /\ rms' = Rms(FromBuffer(audio_data))
    /\ phase' = "rms"
    /\ UNCHANGED <<args, raw, missing, audio_data, user_model_paths, halted, fault>>
    /\ UNCHANGED settings_vars
    /\ UNCHANGED <<n, is_recording, recorded_frames, consecutive_silent_chunks,
                   speech_has_started, prediction, prediction_buffer, exported, log>>
    /\ UNCHANGED session_history

RmsInit ==
    /\ args = ArgsDefault
    /\ phase = "chunk"
    /\ raw = RawConsumed
    /\ missing = {}
    /\ audio_data \in ConstantChunks \cup MixedChunks
    /\ SettingsLoaded
    /\ user_model_paths = <<>>
    /\ LoopEntry

RmsNext == ComputeRms

SpecRms == RmsInit /\ [][RmsNext]_vars

(***************************************************************************)
(* load_settings and save_settings.                                        *)
(***************************************************************************)
\* calls of load_settings in a run
MaxLoads == 2

\* the keys a wakeword_settings object of the file has
KeyChoices == {{}, {"chunk_size"}, {"model_path1", "silence_threshold"}, Keys}

\* wakeword_settings objects of the file, without and with an unknown key
FileDicts ==
    UNION {[K -> {"default", "custom"}] : K \in KeyChoices}
    \cup UNION {[K \cup {"extra"} -> {"default", "custom"}] : K \in KeyChoices}
    \cup {[k \in {"chunk_size"} |-> "null"]}

\* values of "wakeword_settings" in the file
FileCategories == {Dict(d) : d \in FileDicts} \cup {Scalar}

\* JSON objects: with or without wakeword_settings and an unknown category
FileObjects ==
    {Object(NoCategories), Object([c \in {"other"} |-> Scalar])}
    \cup {Object([c \in {"wakeword_settings"} |-> w]) : w \in FileCategories}
    \cup {Object([c \in {"wakeword_settings", "other"} |->
                     IF c = "other" THEN Scalar ELSE w]) : w \in FileCategories}

\* no file; text that is no JSON; bytes that are no text; JSON that is no
\* object (a list or a string "with_name" holds the text wakeword_settings)
OtherContents ==
    {Content(k) : k \in {"missing", "garbage", "undecodable", "null", "number",
                         "bool", "string", "string_with_name", "list",
                         "list_with_name"}}

Files == FileObjects \cup OtherContents

\* the exception of `category_key in loaded_from_file` and of
\* loaded_from_file[category_key], "none" if neither raises
MergeFault(loaded) ==
    IF loaded.kind \in {"null", "number", "bool", "string_with_name", "list_with_name"}
    THEN "TypeError"
    ELSE "none"

\* category_key in loaded_from_file
HasCategory(loaded, c) == loaded.kind = "object" /\ c \in DOMAIN loaded.cats

\* variant: the merge keeps the default of every key
MergeCategoryKeepsDefault(default, loaded) == default

\* for key in default_category_values: if key in loaded_category_values: ..
MergeCategory(default, loaded) ==
    IF default.kind = "object" /\ loaded.kind = "object"
    THEN Dict([k \in DOMAIN default.keys |->
                  IF k \in DOMAIN loaded.keys THEN loaded.keys[k] ELSE default.keys[k]])
    ELSE default

\* the merge of the file's content into a copy of the defaults
Merged(defaults, loaded) ==
    Object([c \in DOMAIN defaults.cats |->
               IF HasCategory(loaded, c)
               THEN MergeCategory(defaults.cats[c], loaded.cats[c])
               ELSE defaults.cats[c]])

\* add the missing default keys and remove the unknown keys of a category
EnsureKeys(default, final) ==
    IF default.kind = "object" /\ final.kind = "object"
    THEN Dict([k \in DOMAIN default.keys |->
                  IF k \in DOMAIN final.keys THEN final.keys[k] ELSE default.keys[k]])
    ELSE final

\* "Ensure all default keys exist and remove unknown keys from final settings"
Cleaned(defaults, final) ==
    Object([c \in DOMAIN defaults.cats |-> EnsureKeys(defaults.cats[c], final.cats[c])])

\* what load_settings returns for a content whose merge raises nothing
FinalSettings(defaults, loaded) ==
    IF loaded.kind \in {"missing", "garbage"}
    THEN defaults
    ELSE Cleaned(defaults, Merged(defaults, loaded))

\* save_settings is called: the file is missing or no JSON, or
\* final_settings != loaded_from_file
NeedsSave(defaults, loaded) ==
    \/ loaded.kind \in {"missing", "garbage"}
    \/ FinalSettings(defaults, loaded) # loaded

\* save_settings(settings): the file gets the settings
SaveSettings(settings) ==
    /\ settings_file' = settings
    /\ save_outcome' = "saved"

\* save_settings(settings) catches an IOError: open failed and the file is as
\* it was, or the write failed after open had emptied the file
SaveSettingsFails ==
    /\ settings_file' \in {settings_file, Content("garbage")}
    /\ save_outcome' = "failed"

\* load_settings() returns
LoadSettings ==
    /\ phase = "settings"
    /\ ~halted
    /\ Len(returned) < MaxLoads
    /\ MergeFault(settings_file) = "none"
    /\ settings_file.kind # "undecodable"
    /\ loaded_from_file' = settings_file
    /\ LET final == FinalSettings(default_settings, settings_file)
       IN  /\ final_settings' = DeepCopy(final)
           /\ returned' = Append(returned, final)
           /\ IF NeedsSave(default_settings, settings_file)
              THEN SaveSettings(final) \/ SaveSettingsFails
              ELSE UNCHANGED settings_file /\ save_outcome' = "none"
    /\ UNCHANGED <<default_settings, halted, fault>>
    /\ UNCHANGED <<args, phase, raw, missing, audio_data, user_model_paths>>
    /\ UNCHANGED loop_vars
    /\ UNCHANGED session_history

\* load_settings() raises: json.load on bytes that are no text, or the merge
\* on JSON that is no object
LoadSettingsRaises ==
    /\ phase = "settings"
    /\ ~halted
    /\ Len(returned) < MaxLoads
    /\ \/ settings_file.kind = "undecodable" /\ Raise("UnicodeDecodeError")
       \/ MergeFault(settings_file) # "none" /\ Raise(MergeFault(settings_file))
    /\ loaded_from_file' = settings_file
    /\ save_outcome' = "none"
    /\ UNCHANGED <<settings_file, default_settings, final_settings, returned>>
    /\ UNCHANGED <<args, phase, raw, missing, audio_data, user_model_paths>>
    /\ UNCHANGED loop_vars
    /\ UNCHANGED session_history

\* the caller sets a key of the object it was returned (as edit_settings_menu
\* does); an object shared with DEFAULT_SETTINGS changes with it
MutateResult(c, k) ==
    /\ phase = "settings"
    /\ ~halted
    /\ returned # <<>>
    /\ final_settings.value.cats[c].keys[k] # "mutated"
    /\ final_settings' = [final_settings EXCEPT !.value.cats[c].keys[k] = "mutated"]
    /\ default_settings' =
           IF c \in final_settings.shares
           THEN [default_settings EXCEPT !.cats[c].keys[k] = "mutated"]
           ELSE default_settings
    /\ UNCHANGED <<settings_file, save_outcome, loaded_from_file, returned>>
    /\ UNCHANGED <<args, phase, raw, missing, audio_data, user_model_paths, halted, fault>>
    /\ UNCHANGED loop_vars
    /\ UNCHANGED session_history

SettingsInit ==
    /\ args = ArgsUnparsed
    /\ phase = "settings"
    /\ raw = RawConsumed
    /\ missing = {}
    /\ audio_data = <<>>
    /\ settings_file \in Files
    /\ default_settings = DEFAULT_SETTINGS
    /\ final_settings = NoResult
    /\ save_outcome = "none"
    /\ loaded_from_file = Content("nothing")
    /\ returned = <<>>
    /\ user_model_paths = <<>>
    /\ LoopEntry

SettingsNext ==
    \/ LoadSettings
    \/ LoadSettingsRaises
    \/ MutateResult("wakeword_settings", "chunk_size")

SpecSettings == SettingsInit /\ [][SettingsNext]_vars

(***************************************************************************)
(* The wakeword models to load.  A path is a string; NoPath stands for     *)
(* None (a null in settings.json, an option that is not given), Blank for  *)
(* a path of white space only.                                             *)
(***************************************************************************)
NoPath == "<None>"
Blank == " "

\* the model path keys of wakeword_settings
ModelPathKeys == {"model_path1", "model_path2", "model_path3"}

\* the model path options of the command line, in the order they are used
ModelPathOptions == <<"model_path", "model_path2", "model_path3">>

ModelPathOptionSet == {ModelPathOptions[i] : i \in 1..Len(ModelPathOptions)}

\* paths stored in settings.json: a relative and an absolute file name
SettingsPaths == {"", NoPath, Blank, "hey.onnx", "/opt/hey.onnx"}

\* paths given on the command line
CliPaths == {NoPath, "", "cli.onnx"}

ModelInputs == [settings : [ModelPathKeys -> SettingsPaths],
                cli : [ModelPathOptionSet -> CliPaths]]

\* current_settings.get(option): load_settings keeps the keys of
\* DEFAULT_SETTINGS only, so any other key gets None
SettingsGet(option) ==
    IF option \in ModelPathKeys THEN raw.settings[option] ELSE NoPath

\* add_argument("--" + option, default=current_settings.get(option))
ModelPathArg(option) ==
    IF raw.cli[option] # NoPath THEN raw.cli[option] ELSE SettingsGet(option)

\* m.strip()
Strip(m) == IF m = Blank THEN "" ELSE m

\* if args.<option> and args.<option>.strip() != ""
IsGiven(m) == m # NoPath /\ m # "" /\ Strip(m) # ""

\* os.path.isabs(m)
IsAbs(m) == m = "/opt/hey.onnx"

\* full_path = m if os.path.isabs(m) else os.path.join(custom_dir, m)
FullPath(m) == [dir |-> IF IsAbs(m) THEN "" ELSE "custom_dir", file |-> m]

\* user_models, then user_model_paths, of the options from the i-th on
RECURSIVE UserModelPaths(_, _)
UserModelPaths(a, i) ==
    IF i > Len(ModelPathOptions) THEN <<>>
    ELSE (IF IsGiven(a[ModelPathOptions[i]])
          THEN <<FullPath(a[ModelPathOptions[i]])>> ELSE <<>>)
         \o UserModelPaths(a, i + 1)

\* parser.parse_args(), for the model path options
ParseModelArgs ==
    /\ phase = "model_args"
    /\ args' = [option \in ModelPathOptionSet |-> ModelPathArg(option)]
    /\ phase' = "model_load"
    /\ UNCHANGED <<raw, missing, halted, fault>>
    /\ UNCHANGED aside_vars
    /\ UNCHANGED loop_vars
    /\ UNCHANGED session_history

\* user_models, user_model_paths and Model(wakeword_models=user_model_paths)
LoadModels ==
    /\ phase = "model_load"
    /\ user_model_paths' = UserModelPaths(args, 1)
    /\ phase' = "model_loaded"
    /\ UNCHANGED <<args, raw, missing, halted, fault>>
    /\ UNCHANGED <<audio_data, settings_vars>>
    /\ UNCHANGED loop_vars
    /\ UNCHANGED session_history

ModelsInit ==
    /\ args = ArgsUnparsed
    /\ phase = "model_args"
    /\ raw \in ModelInputs
    /\ missing = {}
    /\ audio_data = <<>>
    /\ SettingsLoaded
    /\ user_model_paths = <<>>
    /\ LoopEntry

ModelsNext == ParseModelArgs \/ LoadModels

SpecModels == ModelsInit /\ [][ModelsNext]_vars

(***************************************************************************)
(* The start of the script: the settings are loaded and the arguments      *)
(* parsed, chunk_size gets its fallback, the microphone stream is opened   *)
(* and the two chunk-count limits are computed.  Then the loop is entered. *)
(***************************************************************************)
\* values of wakeword_settings in settings.json
SettingsInputs ==
    [chunk_size : {Absent, None, Text, Number(0), Number(-1280)},
     silence_threshold : {Absent, None},
     silence_duration_ms : {None, Number(50)},
     no_speech_timeout_ms : {None, Number(50)}]

\* values given on the command line (None: the option is not given)
CliInputs ==
    [chunk_size : {None, Text, Number(0)},
     silence_threshold : {None, Number(500)},
     silence_duration_ms : {None},
     no_speech_timeout_ms : {None}]

RawInputs == [settings : SettingsInputs, cli : CliInputs]

\* load_settings: a key absent from the file gets its default
Loaded(k) ==
    IF raw.settings[k].kind = "absent" THEN Number(ArgsDefault[k]) ELSE raw.settings[k]

\* add_argument(default=current_settings.get(..)): the command line wins
Chosen(k) == IF raw.cli[k].kind # "none" THEN raw.cli[k] ELSE Loaded(k)

\* the value configured for k: the command line's, else the settings file's
Configured(k) == IF raw.cli[k].kind # "none" THEN raw.cli[k] ELSE raw.settings[k]

\* parser.parse_args(): type is applied to text, from the command line or
\* from a default; text that is no number ends the process (SystemExit)
ParseArgs ==
    /\ UNCHANGED aside_vars
    /\ phase = "parse"
    /\ ~halted
    /\ IF \E k \in Params : Chosen(k).kind = "text"
       THEN /\ Raise("SystemExit")
            /\ UNCHANGED <<args, phase, raw, missing>>
       ELSE /\ args' = [k \in Params |-> Chosen(k).val]
            /\ missing' = {k \in Params : Chosen(k).kind = "none"}
            /\ phase' = "fallback"
            /\ UNCHANGED <<raw, halted, fault>>
    /\ UNCHANGED loop_vars
    /\ UNCHANGED session_history

\* if args.chunk_size is None: args.chunk_size = 1280
ChunkSizeFallback ==
    /\ UNCHANGED aside_vars
    /\ phase = "fallback"
    /\ ~halted
    /\ phase' = "open"
    /\ IF "chunk_size" \in missing
       THEN /\ args' = [args EXCEPT !.chunk_size = 1280]
            /\ missing' = missing \ {"chunk_size"}
            /\ log' = <<"chunk_size_warning">>
       ELSE UNCHANGED <<args, missing, log>>
    /\ UNCHANGED <<raw, halted, fault>>
    /\ UNCHANGED <<n, is_recording, recorded_frames, consecutive_silent_chunks,
                   speech_has_started, rms, prediction, prediction_buffer, exported>>
    /\ UNCHANGED session_history

\* audio.open(.., frames_per_buffer=CHUNK) returns a stream
OpenStream ==
    /\ UNCHANGED aside_vars
    /\ phase = "open"
    /\ ~halted
    /\ phase' = "limits"
    /\ UNCHANGED <<args, raw, missing, halted, fault>>
    /\ UNCHANGED loop_vars
    /\ UNCHANGED session_history

\* audio.open raises: with a buffer of no frames, or of less than none, the
\* audio library may refuse the stream
OpenFault ==
    /\ UNCHANGED aside_vars
    /\ phase = "open"
    /\ ~halted
    /\ CHUNK <= 0
    /\ Raise("open")
    /\ UNCHANGED <<args, phase, raw, missing>>
    /\ UNCHANGED loop_vars
    /\ UNCHANGED session_history

\* the exception of int(args.<seconds> * RATE / CHUNK), "none" if it has a value
LimitFault(k) ==
    IF k \in missing THEN "TypeError"
    ELSE IF CHUNK = 0 THEN "ZeroDivisionError"
    ELSE "none"

\* SILENCE_CHUNKS_FOR_SPEECH_END = .. ; NO_SPEECH_TIMEOUT_CHUNKS = ..
ComputeLimits ==
    /\ UNCHANGED aside_vars
    /\ phase = "limits"
    /\ ~halted
    /\ LET first == LimitFault("silence_duration_ms")
           second == LimitFault("no_speech_timeout_ms")
       IN  IF first # "none" THEN Raise(first) /\ UNCHANGED <<phase, raw>>
           ELSE IF second # "none" THEN Raise(second) /\ UNCHANGED <<phase, raw>>
           ELSE /\ phase' = "loop"
                /\ raw' = RawConsumed
                /\ UNCHANGED <<halted, fault>>
    /\ UNCHANGED <<args, missing>>
    /\ UNCHANGED loop_vars
    /\ UNCHANGED session_history

\* an iteration while recording with args.silence_threshold None: the chunk
\* is appended and its energy computed, then the comparison raises
RecordingTypeError(r) ==
    /\ phase = "loop"
    /\ ~halted
    /\ is_recording
    /\ "silence_threshold" \in missing
    /\ n < MaxChunks
    /\ n' = n + 1
    /\ recorded_frames' = Append(recorded_frames, n + 1)
    /\ rms' = r
    /\ log' = <<"append">>
    /\ Raise("TypeError")
    /\ UNCHANGED <<args, is_recording, consecutive_silent_chunks, speech_has_started,
                   prediction, prediction_buffer, exported>>
    /\ UNCHANGED startup_vars
    /\ UNCHANGED aside_vars
    /\ UNCHANGED session_history

StartupInit ==
    /\ args = ArgsUnparsed
    /\ phase = "parse"
    /\ raw \in RawInputs
    /\ missing = {}
    /\ audio_data = <<>>
    /\ SettingsLoaded
    /\ user_model_paths = <<>>
    /\ LoopEntry

StartupNext ==
    \/ ParseArgs
    \/ ChunkSizeFallback
    \/ OpenStream
    \/ OpenFault
    \/ ComputeLimits
    \/ \E r \in RmsLevels : RecordingBranch(r)
    \/ \E r \in {100, 800} : RecordingTypeError(r)
    \/ \E scores \in [ModelSet -> ScoreLevels] : DetectionBranch(scores)
    \/ ReadFault

SpecStartup == StartupInit /\ [][StartupNext]_vars

(***************************************************************************)
InLog(e) == \E i \in 1..Len(log) : log[i] = e

\* the models the latest iteration announced as detected
Announced == SelectSeq(log, LAMBDA e : e \in ModelSet)

Detected == Announced # <<>>

SessionEnded == InLog("no_speech_timeout") \/ InLog("silence_detected")

Idle == ~is_recording
AwaitingSpeechState == is_recording /\ ~speech_has_started
InSpeechState == is_recording /\ speech_has_started

\* floor(seconds * 16000 / chunk_size), seconds in thousandths
FloorChunks(ms) == (ms * 16000) \div (1000 * args.chunk_size)

AtLeastOne(k) == IF k < 1 THEN 1 ELSE k

\* the chunks read after the detecting chunk, in order
ChunksSinceDetection == [i \in 1..(n - detected_at) |-> detected_at + i]

(***************************************************************************)
(* C1: as long as no score returned by the scorer has exceeded 0.5 (0.5    *)
(* itself included), the controller is in IDLE: is_recording is not set,   *)
(* nothing has been appended or exported and no session-end reset has run. *)
(***************************************************************************)
C1_StaysIdleWithoutScore ==
    ~score_exceeded =>
        /\ ~is_recording
        /\ recorded_frames = <<>>
        /\ exported = <<>>
        /\ ~had_session
        /\ \A i \in 1..Len(log) : log[i] = "predict"

\* several chunks scored, the latest at exactly 0.5, still idle
C1_Witness ==
    /\ ~score_exceeded
    /\ n >= 3
    /\ \A m \in ModelSet : prediction[m] = DetectionThreshold
    /\ InLog("predict")

(***************************************************************************)
(* C2 as stated: after a detection followed only by chunks below the       *)
(* silence threshold, the session is open for fewer than                   *)
(* floor(T*16000/C) chunks and aborts with exactly that many recorded.     *)
(***************************************************************************)
C2_AbortsAtFloor ==
    /\ AwaitingSpeechState =>
           Len(recorded_frames) < FloorChunks(args.no_speech_timeout_ms)
    /\ InLog("no_speech_timeout") =>
           Len(exported) = FloorChunks(args.no_speech_timeout_ms)

(***************************************************************************)
(* C2 amended: with L = max(1, floor(T*16000/C)), a session awaiting       *)
(* speech has read fewer than L chunks, all below the threshold; the next  *)
(* chunk below the threshold aborts the session to IDLE exactly when it is *)
(* the L-th, and otherwise leaves it awaiting speech; the session has not  *)
(* been in RECORDING_IN_SPEECH.                                            *)
(***************************************************************************)
C2_Limit == AtLeastOne(FloorChunks(args.no_speech_timeout_ms))

C2_AbortsAtLimit ==
    /\ [](AwaitingSpeechState =>
              /\ Len(recorded_frames) < C2_Limit
              /\ silent_run = Len(recorded_frames))
    /\ [](InLog("no_speech_timeout") =>
              /\ Idle
              /\ Len(exported) = C2_Limit
              /\ silent_run = C2_Limit
              /\ ~InLog("speech_started"))
    /\ [][(AwaitingSpeechState /\ n' = n + 1 /\ rms' < args.silence_threshold) =>
              IF Len(recorded_frames) + 1 = C2_Limit
              THEN ~is_recording' /\ log'[2] = "no_speech_timeout"
              ELSE is_recording' /\ ~speech_has_started']_vars

\* the default configuration aborts on the 50th chunk after the detection
C2_Witness ==
    /\ args = ArgsDefault
    /\ InLog("no_speech_timeout")
    /\ Idle
    /\ n - detected_at = 50

(***************************************************************************)
(* C3 as stated: in RECORDING_IN_SPEECH the run of silent chunks is        *)
(* shorter than N = floor(S*16000/C), and the session is finalized on the  *)
(* N-th silent chunk of a run.                                             *)
(***************************************************************************)
C3_FinalizesAtFloor ==
    /\ InSpeechState => silent_run < FloorChunks(args.silence_duration_ms)
    /\ InLog("silence_detected") =>
           silent_run = FloorChunks(args.silence_duration_ms)

(***************************************************************************)
(* C3 amended: with N = max(1, floor(S*16000/C)), in RECORDING_IN_SPEECH   *)
(* the run of consecutive silent chunks is shorter than N; a silent chunk  *)
(* finalizes the session to IDLE exactly when it is the N-th of its run    *)
(* and otherwise leaves the session in RECORDING_IN_SPEECH.                *)
(***************************************************************************)
C3_Limit == AtLeastOne(FloorChunks(args.silence_duration_ms))

C3_FinalizesAtLimit ==
    /\ [](InSpeechState => silent_run < C3_Limit)
    /\ [](InLog("silence_detected") => Idle /\ silent_run = C3_Limit)
    /\ [][(InSpeechState /\ n' = n + 1 /\ rms' < args.silence_threshold) =>
              IF silent_run + 1 = C3_Limit
              THEN ~is_recording' /\ log'[2] = "silence_detected"
              ELSE is_recording' /\ speech_has_started']_vars

\* the default configuration finalizes on the 12th silent chunk of a run
\* that follows some silence-interrupted speech
C3_Witness ==
    /\ args = ArgsDefault
    /\ InLog("silence_detected")
    /\ silent_run = 12
    /\ ~speech_unbroken
    /\ Idle

(***************************************************************************)
(* C4: in RECORDING_IN_SPEECH a chunk with rms >= silence_threshold sets   *)
(* consecutive_silent_chunks to 0 and keeps the session in                 *)
(* RECORDING_IN_SPEECH; the counter is the length of the current run of    *)
(* silent chunks, so silent chunks separated by such a chunk do not add up.*)
(***************************************************************************)
C4_SpeechResetsCounter ==
    /\ [](InSpeechState => consecutive_silent_chunks = silent_run)
    /\ [][(InSpeechState /\ n' = n + 1 /\ rms' >= args.silence_threshold) =>
              /\ consecutive_silent_chunks' = 0
              /\ is_recording'
              /\ speech_has_started']_vars

\* a chunk at or above the threshold processed in RECORDING_IN_SPEECH, in a
\* session that had silent chunks before
C4_Witness ==
    /\ InSpeechState
    /\ args = ArgsDefault
    /\ rms >= args.silence_threshold
    /\ consecutive_silent_chunks = 0
    /\ ~speech_unbroken
    /\ ~InLog("speech_started")
    /\ Len(recorded_frames) > 12

(***************************************************************************)
(* C5 as stated: the buffer of a session is the ordered sequence of the    *)
(* chunks read after the detecting chunk, which is not in it, and that is  *)
(* what a session end exports; with chunk_size 1280, threshold 500 and 1.0 *)
(* s of silence, 5 chunks of speech followed by silence only are finalized *)
(* after the 13th silent chunk with 18 chunks exported.                    *)
(***************************************************************************)
C5_Scenario ==
    /\ args = ArgsDefault
    /\ InLog("silence_detected")
    /\ speech_unbroken
    /\ Len(exported) - silent_run = 5

C5_ExportsSessionChunks18 ==
    /\ is_recording => recorded_frames = ChunksSinceDetection
    /\ SessionEnded =>
           /\ exported = ChunksSinceDetection
           /\ exported # <<>>
           /\ \A i \in 1..Len(exported) : exported[i] # detected_at
    /\ C5_Scenario => silent_run = 13 /\ Len(exported) = 18

(***************************************************************************)
(* C5 amended: the same, except that the scenario is finalized after the   *)
(* 12th silent chunk (floor(12.5) = 12) with 5 + 12 = 17 chunks exported.  *)
(***************************************************************************)
C5_ExportsSessionChunks ==
    /\ is_recording => recorded_frames = ChunksSinceDetection
    /\ SessionEnded =>
           /\ exported = ChunksSinceDetection
           /\ exported # <<>>
           /\ \A i \in 1..Len(exported) : exported[i] # detected_at
    /\ C5_Scenario => silent_run = 12 /\ Len(exported) = 17

\* the scenario: 5 chunks of speech, then silence until the session ends
C5_Witness ==
    /\ C5_Scenario
    /\ Idle
    /\ exported = ChunksSinceDetection
    /\ Len(exported) = 17

(***************************************************************************)
(* C6 as stated: the iteration that detects a wakeword resets the scorer,  *)
(* so the score histories are empty when it is done.                       *)
(***************************************************************************)
C6_DetectionResetsHistories ==
    Detected => InLog("reset") /\ prediction_buffer = Reset

(***************************************************************************)
(* C6 amended: a detection does not reset the scorer; the score histories, *)
(* with the trailing score above 0.5 that caused the detection, are kept   *)
(* unchanged for the whole session and are reset by the iteration that     *)
(* ends the session, before the next chunk is read.                        *)
(***************************************************************************)
C6_HistoriesKeptUntilSessionEnd ==
    /\ [](Detected => ~InLog("reset"))
    /\ [](is_recording =>
              /\ \A m \in ModelSet : prediction_buffer[m] # <<>>
              /\ \E m \in ModelSet : ScoreExceeds(prediction_buffer[m]))
    /\ [][(is_recording /\ n' = n + 1) =>
              IF is_recording'
              THEN prediction_buffer' = prediction_buffer
              ELSE prediction_buffer' = Reset]_vars

\* in the middle of a session the trailing score is still above 0.5
C6_Witness ==
    /\ InSpeechState
    /\ Len(recorded_frames) >= 3
    /\ ~InLog("reset")
    /\ \E m \in ModelSet : ScoreExceeds(prediction_buffer[m])

(***************************************************************************)
(* C7: each session end, abort or finalization, resets the scorer in the   *)
(* same iteration, leaving the score histories empty; the controller       *)
(* leaves IDLE only in an iteration whose own chunk scored above 0.5, and  *)
(* that score is the trailing one of its history.                          *)
(***************************************************************************)
C7_ResetAtSessionEnd ==
    /\ [](SessionEnded =>
              /\ Idle
              /\ prediction_buffer = Reset
              /\ log[Len(log)] = "reset")
    /\ [][(Idle /\ is_recording') =>
              /\ n' = n + 1
              /\ \E m \in ModelSet :
                     /\ prediction'[m] > DetectionThreshold
                     /\ prediction_buffer'[m] # <<>>
                     /\ prediction_buffer'[m][Len(prediction_buffer'[m])]
                            = prediction'[m]
                     /\ Len(prediction_buffer'[m]) <= n' - (detected_at + Len(exported))]_vars

\* a detection following an earlier session
C7_Witness ==
    /\ had_session
    /\ Detected
    /\ is_recording

(***************************************************************************)
(* C8: in IDLE, an iteration in which at least one scorer's trailing score *)
(* exceeds 0.5 announces exactly one detection and ends in                 *)
(* RECORDING_AWAITING_SPEECH with the recording buffer empty, the silence  *)
(* counter 0 and speech_has_started false.                                 *)
(***************************************************************************)
C8_SingleDetection ==
    /\ [](Detected =>
              /\ Len(Announced) = 1
              /\ is_recording
              /\ ~speech_has_started
              /\ recorded_frames = <<>>
              /\ consecutive_silent_chunks = 0)
    /\ [][(Idle /\ n' = n + 1
                /\ \E m \in ModelSet : prediction'[m] > DetectionThreshold) =>
              Detected' /\ is_recording']_vars

\* both scorers exceed 0.5 on the same chunk
C8_Witness ==
    /\ Detected
    /\ is_recording
    /\ \A m \in ModelSet : ScoreExceeds(prediction_buffer[m])

(***************************************************************************)
(* C9: a chunk with rms equal to silence_threshold is speech in both       *)
(* recording states: it leaves the session in RECORDING_IN_SPEECH with the *)
(* silence counter 0, starting speech when speech had not started; the     *)
(* counter is incremented, and a session ended, only by a chunk with rms   *)
(* strictly below the threshold.                                           *)
(***************************************************************************)
C9_ThresholdIsSpeech ==
    /\ [][(is_recording /\ n' = n + 1 /\ rms' = args.silence_threshold) =>
              /\ is_recording'
              /\ speech_has_started'
              /\ consecutive_silent_chunks' = 0
              /\ (~speech_has_started => log' = <<"append", "speech_started">>)]_vars
    /\ [][(is_recording /\ n' = n + 1
                /\ (consecutive_silent_chunks' > consecutive_silent_chunks
                        \/ ~is_recording')) =>
              rms' < args.silence_threshold]_vars

\* speech started by a chunk at exactly the threshold
C9_Witness ==
    /\ InSpeechState
    /\ rms = args.silence_threshold
    /\ InLog("speech_started")
    /\ consecutive_silent_chunks = 0

(***************************************************************************)
(* C10: a chunk read while not recording is scored and not recorded; a     *)
(* chunk read while recording is recorded (it is the last frame of the     *)
(* buffer, or of the export that ends the session) and not scored.         *)
(***************************************************************************)
C10_ScoredOrRecorded ==
    [][(n' = n + 1) =>
          IF is_recording
          THEN /\ LET frames == IF is_recording' THEN recorded_frames' ELSE exported'
                  IN  frames = Append(recorded_frames, n')
               /\ log'[1] = "append"
               /\ \A i \in 1..Len(log') : log'[i] # "predict"
               /\ prediction' = prediction
               /\ prediction_buffer' \in {prediction_buffer, Reset}
          ELSE /\ log'[1] = "predict"
               /\ \A i \in 1..Len(log') : log'[i] # "append"
               /\ recorded_frames' = <<>>
               /\ exported' = <<>>
               /\ \A m \in ModelSet :
                      prediction_buffer'[m] =
                          KeepLast(Append(prediction_buffer[m], prediction'[m]))]_vars

\* a detecting chunk: scored, with nothing recorded
C10_Witness ==
    /\ Detected
    /\ n >= 2
    /\ recorded_frames = <<>>
    /\ log[1] = "predict"

(***************************************************************************)
(* C17: an iteration that ends a session, by no-speech timeout or by       *)
(* end-of-speech silence, exports the buffer exactly once and does, in     *)
(* this order: export, clear of buffer / counter / speech flag with the    *)
(* return to IDLE, scorer reset; no other iteration exports anything.      *)
(***************************************************************************)
C17_ExportClearReset ==
    /\ SessionEnded =>
           /\ SubSeq(log, 3, Len(log)) = <<"export", "clear", "reset">>
           /\ exported # <<>>
           /\ Idle
           /\ recorded_frames = <<>>
           /\ consecutive_silent_chunks = 0
           /\ ~speech_has_started
           /\ prediction_buffer = Reset
    /\ ~SessionEnded => ~InLog("export") /\ exported = <<>>

\* a no-speech abort that exported its silent buffer
C17_Witness ==
    /\ InLog("no_speech_timeout")
    /\ InLog("export")
    /\ Len(exported) >= 3

(***************************************************************************)
(* C18: whenever the controller is in IDLE between two iterations, the     *)
(* recording buffer is empty, consecutive_silent_chunks is 0 and           *)
(* speech_has_started is false: initially and after every session end.     *)
(***************************************************************************)
C18_IdleIsClean ==
    Idle =>
        /\ recorded_frames = <<>>
        /\ consecutive_silent_chunks = 0
        /\ ~speech_has_started

\* idle right after a session that had speech and ended by silence
C18_Witness ==
    /\ Idle
    /\ InLog("silence_detected")
    /\ Len(exported) >= 3
    /\ recorded_frames = <<>>

(***************************************************************************)
(* C19 as stated: awaiting speech, the counter equals the buffer length    *)
(* and is below floor(T*16000/C); in speech, the counter is below the      *)
(* buffer length and below floor(S*16000/C).                               *)
(***************************************************************************)
C19_CounterBelowFloor ==
    /\ AwaitingSpeechState =>
           /\ consecutive_silent_chunks = Len(recorded_frames)
           /\ consecutive_silent_chunks < FloorChunks(args.no_speech_timeout_ms)
    /\ InSpeechState =>
           /\ consecutive_silent_chunks < Len(recorded_frames)
           /\ consecutive_silent_chunks < FloorChunks(args.silence_duration_ms)

(***************************************************************************)
(* C19 amended: the same with the limits max(1, floor(T*16000/C)) and      *)
(* max(1, floor(S*16000/C)): between two iterations the counter is below   *)
(* its limit, and an iteration in which it would reach the limit ends the  *)
(* session instead.                                                        *)
(***************************************************************************)
C19_CounterBelowLimit ==
    /\ [](AwaitingSpeechState =>
              /\ consecutive_silent_chunks = Len(recorded_frames)
              /\ consecutive_silent_chunks < C2_Limit)
    /\ [](InSpeechState =>
              /\ consecutive_silent_chunks < Len(recorded_frames)
              /\ consecutive_silent_chunks < C3_Limit)
    /\ [][(AwaitingSpeechState /\ n' = n + 1 /\ rms' < args.silence_threshold
                /\ consecutive_silent_chunks + 1 >= C2_Limit) => ~is_recording']_vars
    /\ [][(InSpeechState /\ n' = n + 1 /\ rms' < args.silence_threshold
                /\ consecutive_silent_chunks + 1 >= C3_Limit) => ~is_recording']_vars

\* in speech, one silent chunk short of the limit
C19_Witness ==
    /\ InSpeechState
    /\ args = ArgsDefault
    /\ consecutive_silent_chunks = 11
    /\ Len(recorded_frames) > 11

(***************************************************************************)
(* C20: an iteration reads one chunk and makes at most one transition, one *)
(* of IDLE -> AWAITING_SPEECH, AWAITING_SPEECH -> IN_SPEECH,               *)
(* AWAITING_SPEECH -> IDLE and IN_SPEECH -> IDLE.  The detecting chunk's   *)
(* energy is not evaluated, and the chunk that starts speech does not end  *)
(* the session.                                                            *)
(***************************************************************************)
ControllerState ==
    IF ~is_recording THEN "IDLE"
    ELSE IF speech_has_started THEN "RECORDING_IN_SPEECH"
    ELSE "RECORDING_AWAITING_SPEECH"

TransitionEvents ==
    {i \in 1..Len(log) :
        log[i] \in ModelSet \union {"speech_started", "no_speech_timeout", "silence_detected"}}

C20_Transitions ==
    [][/\ n' = n + 1
       /\ \/ ControllerState' = ControllerState
          \/ <<ControllerState, ControllerState'>> \in
                 {<<"IDLE", "RECORDING_AWAITING_SPEECH">>,
                  <<"RECORDING_AWAITING_SPEECH", "RECORDING_IN_SPEECH">>,
                  <<"RECORDING_AWAITING_SPEECH", "IDLE">>,
                  <<"RECORDING_IN_SPEECH", "IDLE">>}
       /\ Cardinality(TransitionEvents') <= 1
       /\ (ControllerState' # ControllerState) <=> (TransitionEvents' # {})
       /\ ControllerState = "IDLE" => rms' = rms
       /\ (is_recording /\ rms' >= args.silence_threshold) => is_recording']_vars

\* speech started where the silence limit is 0 chunks: the session is still open
C20_Witness ==
    /\ args = ArgsShort
    /\ ControllerState = "RECORDING_IN_SPEECH"
    /\ InLog("speech_started")
    /\ recorded_frames = <<detected_at + 1>>

(***************************************************************************)
(* C13: when the read, the scorer (predict or reset) or the exporter       *)
(* raises, the loop halts at that point: the process has ended, the state  *)
(* is the one reached just before the faulting call, and no step follows   *)
(* (no further chunk, transition or export, no repetition of the call).    *)
(***************************************************************************)
C13_FaultHalts ==
    /\ [](fault # "none" => halted)
    /\ [][fault = "none"]_vars
    /\ [][(fault' = "read") => n' = n /\ is_recording' = is_recording
                               /\ recorded_frames' = recorded_frames]_vars
    /\ [][(fault' = "predict") => /\ n' = n + 1
                                  /\ ~is_recording'
                                  /\ prediction_buffer' = prediction_buffer]_vars
    /\ [][(fault' = "export") => /\ n' = n + 1
                                 /\ is_recording'
                                 /\ speech_has_started' = speech_has_started
                                 /\ exported' = exported
                                 /\ prediction_buffer' = prediction_buffer]_vars
    /\ [][(fault' = "reset") => /\ n' = n + 1
                                /\ ~is_recording'
                                /\ exported' = Append(recorded_frames, n')
                                /\ prediction_buffer' = prediction_buffer]_vars

\* the exporter raised at the end of a session with speech
C13_Witness ==
    /\ halted
    /\ fault = "export"
    /\ InSpeechState
    /\ Len(recorded_frames) >= 3

\* the configured chunk_size is absent, null, no integer, zero or negative
ChunkSizeInvalid ==
    LET c == Configured("chunk_size")
    IN  c.kind \in {"absent", "none", "text"} \/ (c.kind = "int" /\ c.val <= 0)

(***************************************************************************)
(* C11: whenever the configured chunk_size is missing or invalid (absent,  *)
(* null, non-integer, zero or negative), the run uses 1280 as CHUNK for    *)
(* reading audio and for both chunk-count limits, instead of failing: the  *)
(* start of the script raises nothing on account of chunk_size, and the    *)
(* loop is entered with CHUNK = 1280.                                      *)
(***************************************************************************)
C11_InvalidChunkSizeUses1280 ==
    /\ [](raw # RawConsumed /\ ChunkSizeInvalid
            => fault \notin {"SystemExit", "open", "ZeroDivisionError"})
    /\ [][phase = "limits" /\ phase' = "loop" /\ ChunkSizeInvalid
            => CHUNK' = 1280]_vars

(***************************************************************************)
(* C12: if silence_threshold, silence_duration_seconds or                  *)
(* no_speech_timeout_seconds is missing, the run halts with an error and   *)
(* the controller never processes a chunk in a recording state with that   *)
(* value missing: the loop is not entered, and no iteration that starts    *)
(* while recording reads or records a chunk.                               *)
(***************************************************************************)
C12_MissingValueIsFatal ==
    /\ [](phase = "loop" => missing = {})
    /\ [][missing # {} /\ is_recording
            => n' = n /\ recorded_frames' = recorded_frames]_vars

\* all samples of the chunk d equal amp
IsConstant(d, amp) == d # <<>> /\ \A i \in 1..Len(d) : d[i] = amp

(***************************************************************************)
(* C14: the energy is computed without overflow over the whole signed      *)
(* 16-bit range: a chunk whose samples all equal A, for any A in           *)
(* -32768..32767, has rms = |A|; an all-zero chunk has rms = 0.            *)
(***************************************************************************)
C14_ConstantChunkRms ==
    phase = "rms" =>
        /\ \A amp \in {audio_data[1]} : IsConstant(audio_data, amp) => rms = Abs(amp)
        /\ (IsConstant(audio_data, 0) => rms = 0)

\* the energy of a chunk of three samples -32768 has been computed
C14_Witness ==
    /\ phase = "rms"
    /\ Len(audio_data) = MaxSamples
    /\ IsConstant(audio_data, Int16Min)
    /\ rms = -Int16Min

(***************************************************************************)
(* Vocabulary of the claims about load_settings.                           *)
(***************************************************************************)
\* the mapping the latest load_settings returned
LatestReturned == returned[Len(returned)]

\* the file's content has key k in category c
FileHasKey(loaded, c, k) ==
    /\ c \in DOMAIN loaded.cats
    /\ loaded.cats[c].kind = "object"
    /\ k \in DOMAIN loaded.cats[c].keys

\* the categories and keys of DEFAULT_SETTINGS, with the file's value for
\* each known key the file has and the default for every other key
ExpectedSettings(loaded) ==
    Object([c \in DOMAIN DEFAULT_SETTINGS.cats |->
               Dict([k \in DOMAIN DEFAULT_SETTINGS.cats[c].keys |->
                        IF FileHasKey(loaded, c, k) THEN loaded.cats[c].keys[k]
                        ELSE DEFAULT_SETTINGS.cats[c].keys[k]])])

\* a load_settings has returned, and the file it found was a JSON object
LoadedObject == returned # <<>> /\ loaded_from_file.kind = "object"

\* this step is a return of load_settings
LoadReturns == Len(returned') = Len(returned) + 1

\* this step is a load_settings that returns what the one before returned
\* and leaves the file alone
SameAgain ==
    /\ returned' = Append(returned, LatestReturned)
    /\ settings_file' = settings_file
    /\ save_outcome' = "none"

(***************************************************************************)
(* C15 as stated: for every settings file that parses as a JSON object,    *)
(* load_settings returns the defaults' categories and keys with the file's *)
(* values for the known keys it has; afterwards the file equals the        *)
(* returned mapping, so a second load_settings returns the same mapping    *)
(* and does not rewrite the file.                                          *)
(***************************************************************************)
C15_FileEqualsReturned ==
    /\ [](LoadedObject =>
            /\ LatestReturned = ExpectedSettings(loaded_from_file)
            /\ settings_file = LatestReturned)
    /\ [][LoadedObject /\ LoadReturns => SameAgain]_vars

(***************************************************************************)
(* C15, amended: load_settings returns that mapping; the file equals it    *)
(* afterwards unless the write failed (save_settings reports the IOError   *)
(* and goes on); a second load_settings of a file equal to the mapping     *)
(* returns the same mapping and does not rewrite the file.                 *)
(***************************************************************************)
C15_FileEqualsReturnedIfSaved ==
    /\ [](LoadedObject =>
            /\ LatestReturned = ExpectedSettings(loaded_from_file)
            /\ (save_outcome # "failed" => settings_file = LatestReturned))
    /\ [][LoadedObject /\ LoadReturns /\ settings_file = LatestReturned
            => SameAgain]_vars

\* a second load has returned a mapping with a value the file gave, and has
\* written nothing
C15_Witness ==
    /\ Len(returned) = 2
    /\ loaded_from_file.kind = "object"
    /\ returned[2].cats["wakeword_settings"].keys["chunk_size"] = "custom"
    /\ returned[2].cats["wakeword_settings"].keys["model_path1"] = "default"
    /\ settings_file = returned[2]
    /\ save_outcome = "none"

\* load_settings was called on a missing file or on content that is no JSON
\* object
LoadedInvalid == loaded_from_file.kind \notin {"nothing", "object"}

\* save_settings was called, and the file is DEFAULT_SETTINGS if the write
\* went through
WroteDefaults ==
    /\ save_outcome # "none"
    /\ (save_outcome = "saved" => settings_file = DEFAULT_SETTINGS)

(***************************************************************************)
(* C16: if the settings file does not exist or its content is invalid,     *)
(* load_settings does not fail: it writes DEFAULT_SETTINGS to the file and *)
(* returns a copy of DEFAULT_SETTINGS, and mutating what it returned never *)
(* changes DEFAULT_SETTINGS.                                               *)
(***************************************************************************)
C16_InvalidFileGetsDefaults ==
    /\ LoadedInvalid =>
           /\ ~halted
           /\ returned # <<>>
           /\ LatestReturned = DEFAULT_SETTINGS
           /\ WroteDefaults
    /\ default_settings = DEFAULT_SETTINGS

(***************************************************************************)
(* Vocabulary of the claim about the end of sessions.                      *)
(***************************************************************************)
\* the latest chunk of the session was silent
SilentTail == is_recording /\ silent_run > 0

\* the latest chunk of the session was not silent
LoudChunk == is_recording /\ rms >= args.silence_threshold /\ silent_run = 0 /\ n > detected_at

\* the chunks still to come within MaxChunks are enough for either limit
RoomLeft == n + C2_Limit + C3_Limit <= MaxChunks

\* this step ends a session that was in RECORDING_IN_SPEECH
SpeechSessionEnds == InSpeechState /\ ~is_recording'

(***************************************************************************)
(* C21 as stated: with chunks that keep coming and no faults, a session    *)
(* whose chunks are all silent from some chunk on eventually returns to    *)
(* IDLE; once RECORDING_IN_SPEECH is entered the no-speech timeout no      *)
(* longer applies: the session ends only through                           *)
(* floor(silence_duration_seconds*16000/chunk_size) consecutive silent     *)
(* chunks, and goes on otherwise, however long it is.                      *)
(***************************************************************************)
C21_EndsAfterFloorSilence ==
    /\ (SilentTail /\ RoomLeft) ~> (Idle \/ LoudChunk)
    /\ [][SpeechSessionEnds =>
              /\ log'[2] = "silence_detected"
              /\ silent_run' = FloorChunks(args.silence_duration_ms)]_vars
    /\ [][InSpeechState /\ n' = n + 1
              /\ ~(rms' < args.silence_threshold
                   /\ silent_run + 1 = FloorChunks(args.silence_duration_ms))
              => is_recording' /\ speech_has_started']_vars

(***************************************************************************)
(* C21 amended: the same with N = max(1, floor(..)) consecutive silent     *)
(* chunks: a session whose chunks are all silent from some chunk on        *)
(* eventually returns to IDLE; a session in RECORDING_IN_SPEECH ends only  *)
(* by silence_detected, on the N-th chunk of a run of silent chunks, never *)
(* by the no-speech timeout, and any other chunk keeps it in               *)
(* RECORDING_IN_SPEECH.                                                    *)
(***************************************************************************)
C21_EndsAfterLimitSilence ==
    /\ (SilentTail /\ RoomLeft) ~> (Idle \/ LoudChunk)
    /\ [][SpeechSessionEnds =>
              /\ log'[2] = "silence_detected"
              /\ silent_run' = C3_Limit]_vars
    /\ [][InSpeechState /\ n' = n + 1
              /\ ~(rms' < args.silence_threshold /\ silent_run + 1 = C3_Limit)
              => is_recording' /\ speech_has_started']_vars

\* a session that has been in speech since the first chunk after the
\* detection on chunk 1 is still recording at the last chunk, with a run of
\* silent chunks longer than the no-speech timeout
C21_Witness ==
    /\ args = ArgsQuick
    /\ InSpeechState
    /\ detected_at = 1
    /\ n = MaxChunks
    /\ Len(recorded_frames) = MaxChunks - 1
    /\ silent_run > C2_Limit

\* the command line option that overrides a model path key
OptionOf(key) == IF key = "model_path1" THEN "model_path" ELSE key

\* the scorer is given the file of path m
PassedToScorer(m) ==
    \E i \in 1..Len(user_model_paths) : user_model_paths[i] = FullPath(m)

(***************************************************************************)
(* C22: every non-empty model path stored under model_path1, model_path2   *)
(* or model_path3 of the wakeword settings is, when its option is not      *)
(* given on the command line, passed to the scorer as a model to load: a   *)
(* path configured in any of the three slots is never silently ignored.    *)
(***************************************************************************)
C22_StoredPathsAreLoaded ==
    phase = "model_loaded" =>
        \A key \in ModelPathKeys :
            (IsGiven(raw.settings[key]) /\ raw.cli[OptionOf(key)] = NoPath)
                => PassedToScorer(raw.settings[key])

====
